---- MODULE Spec2Model ----
(***************************************************************************)
(* WiPi: automatic WiFi / access-point switching (src/wipi.py).            *)
(*                                                                         *)
(* The model follows WiPi.run: one poll cycle is a walk of pc through the  *)
(* try block of the while loop.  Each action is a decision of run()        *)
(* together with the call it issues; the bodies of activate_ap,            *)
(* deactivate_ap, scan_for_known_networks and connect_to_wifi run as steps *)
(* of their own, on a stack of return addresses.  The results of the       *)
(* external commands (nmcli, ip, ping, iw) are inputs drawn with \E.       *)
(*                                                                         *)
(* Time: the code only reads current_time - last_connected_time and        *)
(* current_time - last_connection_check.  The model keeps these two        *)
(* differences (in seconds) and saturates them at MaxAge, which lies above *)
(* both thresholds they are compared with.                                 *)
(***************************************************************************)
EXTENDS Integers, Sequences, FiniteSets, TLC

VARIABLES
    pc,                    \* position of run()
    stack,                 \* return addresses of the calls in progress
    running,               \* self.running
    ap_active,             \* self.ap_active (APStatus)
    is_connected,          \* run(): the verdict of this cycle
    disconnected_count,    \* run(): disconnectedStreak
    consecutive_failures,  \* run(): consecutiveFailures
    time_since_connected,  \* current_time - last_connected_time
    time_since_check,      \* current_time - last_connection_check
    available_networks,    \* run(): the snapshot the Scanner returned
    ssid,                  \* connect_to_wifi(ssid): the network being joined
    profiles,              \* NetworkManager: number of saved hotspot profiles
    FORCE_AP_MODE,         \* module flag, fixed by main() before run()
    PRIORITIZE_CLIENTS,    \* module flag, fixed by main() before run()
    disc_run,              \* history: consecutive Disconnected verdicts
    act_row,               \* history: bodies of activate_ap run in a row
    cyc,                   \* history: what the current cycle has done
    since_scan,            \* history: time samples since the Scanner was called
    deps,                  \* environment: what check_dependencies will find
    exit_code,             \* sys.exit status (-1 while the process runs)
    unit                   \* a helper called on its own: inputs and result

vars == << pc, stack, running, ap_active, is_connected, disconnected_count,
           consecutive_failures, time_since_connected, time_since_check,
           available_networks, ssid, profiles, FORCE_AP_MODE,
           PRIORITIZE_CLIENTS, disc_run,
           act_row, cyc, since_scan, deps, exit_code, unit >>

(***************************************************************************)
(* Program constants (seconds, counts).                                    *)
(***************************************************************************)
CHECK_INTERVAL == 30
MAIN_LOOP_INTERVAL == 15
FORCE_AP_SLEEP_INTERVAL == 30
ERROR_SLEEP_INTERVAL == 5
DISCONNECT_COUNT_THRESHOLD == 2
DISCONNECT_TIME_THRESHOLD == 30
INTERFACE_RESTART_THRESHOLD == 12

(***************************************************************************)
(* Bounds of the model.                                                    *)
(***************************************************************************)
MaxAge == 35        \* the two time differences saturate here
MaxRun == 13        \* consecutive Disconnected verdicts counted exactly
MaxProfiles == 2    \* hotspot profiles NetworkManager can come to hold
SlowCmd == 20       \* seconds the commands of a slow cycle take
MaxSaved == 2       \* connection profiles NetworkManager lists

Networks == {"HomeNet", "Office"}
NoNet == "-"

Min(a, b) == IF a < b THEN a ELSE b

CmdDelays == {0, SlowCmd}


(***************************************************************************)
(* Results of one external command: returncode 0, returncode # 0, or an    *)
(* exception out of subprocess.run (TimeoutExpired, OSError).              *)
(***************************************************************************)
CmdRes == {"ok", "fail", "raise"}

(***************************************************************************)
(* Observer: is_wifi_connected.  ip is the outcome of `ip addr show`       *)
(* ("inet": returncode 0 with an IPv4 address, "noinet": returncode 0      *)
(* without), nm the outcome of `nmcli device` ("connected": returncode 0   *)
(* and wlan0 connected, "other": returncode 0 and any other state), ping   *)
(* the probe and route the default-route fallback taken when the probe     *)
(* raises.  An exception of the first two commands reaches the outer       *)
(* except clause.                                                          *)
(***************************************************************************)
IpRes == {"inet", "noinet", "fail", "raise"}
NmRes == {"connected", "other", "fail", "raise"}
RouteRes == {"route", "noroute", "fail", "raise"}

is_wifi_connected(ip, nm, ping, route) ==
    IF ip = "raise" THEN FALSE
    ELSE LET has_ip == (ip = "inet") IN
         IF ip = "noinet" THEN FALSE
         ELSE IF nm = "raise" THEN FALSE
         ELSE LET nm_connected == (nm = "connected")
                  has_connectivity ==
                      IF ~has_ip THEN FALSE
                      ELSE IF ping = "ok" THEN TRUE
                      ELSE IF ping = "fail" THEN FALSE
                      ELSE route = "route"
              IN has_ip /\ (nm_connected \/ has_connectivity)

ObserverVerdicts ==
    { is_wifi_connected(ip, nm, ping, route) :
          ip \in IpRes, nm \in NmRes, ping \in CmdRes, route \in RouteRes }

(***************************************************************************)
(* Client Monitor: has_connected_clients.  stations is whether the AP      *)
(* interface was found and `iw station dump` printed anything.             *)
(***************************************************************************)
has_connected_clients(active, stations) ==
    IF ~active THEN FALSE ELSE stations

(***************************************************************************)
(* AP Controller: activate_ap past its `already active` guard, as a        *)
(* function of the number p of saved hotspot profiles and of the command   *)
(* results r.  The result is the return value (ok), self.ap_active         *)
(* afterwards (active), the number of profiles afterwards, the step that   *)
(* succeeded and whether is_ap_active was asked after that step            *)
(* (requeried).  `nmcli device wifi hotspot` (the simple method) saves no   *)
(* profile under the names the code looks up.                              *)
(***************************************************************************)
\* a chain that sets the flag before it has verified anything
ActFail_FlagLeftSet(p) ==
    [ok |-> FALSE, active |-> TRUE, profiles |-> p, step |-> "none",
     requeried |-> FALSE]

ActFail(p) ==
    [ok |-> FALSE, active |-> FALSE, profiles |-> p, step |-> "none",
     requeried |-> FALSE]

\* a simple method that is not verified
ActSimple_Unverified(p, r) ==
    IF r.hot = "ok"
        THEN [ok |-> TRUE, active |-> TRUE, profiles |-> p,
              step |-> "simple", requeried |-> r.chk2]
        ELSE ActFail(p)

ActSimple(p, r) ==
    IF r.hot = "ok" /\ r.chk2
        THEN [ok |-> TRUE, active |-> TRUE, profiles |-> p,
              step |-> "simple", requeried |-> TRUE]
        ELSE ActFail(p)

ActCreate(p, r) ==
    IF r.add = "raise" THEN ActFail(p)
    ELSE IF r.add = "fail" THEN ActSimple(p, r)
    ELSE IF r.up1 = "raise" THEN ActFail(p + 1)
    ELSE IF r.up1 = "fail" THEN ActSimple(p + 1, r)
    ELSE IF r.chk1 THEN [ok |-> TRUE, active |-> TRUE, profiles |-> p + 1,
                         step |-> "custom", requeried |-> TRUE]
    ELSE ActSimple(p + 1, r)

activate_ap(p, r) ==
    IF r.radio = "raise" \/ r.list = "raise" THEN ActFail(p)
    ELSE LET hotspot_exists == (r.list = "ok" /\ p > 0) IN
         IF hotspot_exists /\ r.up = "ok"
             THEN [ok |-> TRUE, active |-> TRUE, profiles |-> p,
                   step |-> "reuse", requeried |-> FALSE]
         ELSE IF hotspot_exists /\ r.up = "raise" THEN ActFail(p)
         ELSE ActCreate(p, r)

ActInputs ==
    [radio : CmdRes, list : CmdRes, up : CmdRes, add : CmdRes, up1 : CmdRes,
     hot : CmdRes, chk1 : BOOLEAN, chk2 : BOOLEAN]

\* the outcomes activate_ap can have with p profiles saved (no profile is
\* added beyond MaxProfiles)
ActOutcomes ==
    [p \in 0..(MaxProfiles + 1) |->
        { activate_ap(p, r) :
              r \in { x \in ActInputs : p < MaxProfiles \/ x.add # "ok" } }]

(***************************************************************************)
(* AP Controller: deactivate_ap past its `already inactive` guard.  The    *)
(* result is the return value and self.ap_active afterwards.               *)
(***************************************************************************)
\* a bring-down whose failure still clears the flag
deactivate_ap_FailClears(p, r) ==
    IF r.list = "raise" THEN [ok |-> FALSE, active |-> TRUE, profiles |-> p]
    ELSE [ok |-> (r.list # "ok" \/ p = 0 \/ r.down = "ok"),
          active |-> FALSE, profiles |-> p]

deactivate_ap(p, r) ==
    IF r.list = "raise" THEN [ok |-> FALSE, active |-> TRUE, profiles |-> p]
    ELSE LET found == (r.list = "ok" /\ p > 0) IN
         IF ~found THEN [ok |-> TRUE, active |-> FALSE, profiles |-> p]
         ELSE IF r.down = "ok"
                  THEN [ok |-> TRUE, active |-> FALSE, profiles |-> p]
         ELSE [ok |-> FALSE, active |-> TRUE, profiles |-> p]

DeactOutcomes ==
    [p \in 0..(MaxProfiles + 1) |->
        { deactivate_ap(p, r) : r \in [list : CmdRes, down : CmdRes] }]

(***************************************************************************)
(* Scanner: the attempt loop of scan_for_known_networks.  saved is the     *)
(* list of saved names, att[i] the outcome of the i-th `wifi list`.        *)
(***************************************************************************)
SavedLists ==
    {<<>>} \cup { <<a>> : a \in Networks } \cup
    { <<a, b>> : a \in Networks, b \in Networks }

AttemptRes ==
    { [res |-> "ok", ssids |-> S] : S \in SUBSET Networks } \cup
    { [res |-> "fail", ssids |-> {}], [res |-> "raise", ssids |-> {}] }

Known(saved, ssids) == SelectSeq(saved, LAMBDA s : s \in ssids)

RECURSIVE ScanAttempts(_, _, _)
ScanAttempts(saved, att, i) ==
    IF i > 3 THEN <<>>
    ELSE IF att[i].res = "raise" THEN <<>>
    ELSE IF att[i].res = "fail" THEN ScanAttempts(saved, att, i + 1)
    ELSE IF Known(saved, att[i].ssids) # <<>> THEN Known(saved, att[i].ssids)
    ELSE ScanAttempts(saved, att, i + 1)

scan_for_known_networks(saved, att) ==
    IF saved = <<>> THEN <<>> ELSE ScanAttempts(saved, att, 1)

ScanResults ==
    { scan_for_known_networks(saved, att) :
          saved \in SavedLists, att \in [1..3 -> AttemptRes] }

(***************************************************************************)
(* get_saved_wifi_networks.  NetworkManager's connection profiles are      *)
(* records of a name and a type; names need not be unique.  A line of      *)
(* `nmcli -t -f NAME,TYPE connection show` is modelled by what             *)
(* line.split(':') makes of it (Fields): the terse format joins the fields *)
(* with ':' and writes a ':' inside a name as '\:', so that the name       *)
(* Cafe:5G arrives as the two parts `Cafe\` and `5G`, followed by the      *)
(* type.  The code reads parts[0] as the name and parts[1] as the type.    *)
(***************************************************************************)
WIFI == "802-11-wireless"
ColonNet == "Cafe:5G"
HotspotNames == {"Hotspot-WiPi", "Hotspot WiPi"}

NameFields(name) == IF name = ColonNet THEN <<"Cafe\\", "5G">> ELSE <<name>>

Fields(c) == NameFields(c.name) \o <<c.type>>

Connections ==
    { [name |-> n, type |-> WIFI] : n \in Networks \cup {ColonNet} } \cup
    { [name |-> "Hotspot-WiPi", type |-> WIFI] }

RECURSIVE SeqsUpTo(_, _)
SeqsUpTo(S, n) ==
    IF n = 0 THEN {<<>>}
    ELSE LET shorter == SeqsUpTo(S, n - 1) IN
         shorter \cup { Append(q, x) : q \in shorter, x \in S }

\* what `connection show` can print: the command result and the profiles
SavedOutputs ==
    { [res |-> "ok", rows |-> q] : q \in SeqsUpTo(Connections, MaxSaved) } \cup
    { [res |-> "fail", rows |-> <<>>], [res |-> "raise", rows |-> <<>>] }

RECURSIVE SavedFrom(_)
SavedFrom(rows) ==
    IF rows = <<>> THEN <<>>
    ELSE LET parts == Fields(Head(rows)) IN
         IF Len(parts) >= 2 /\ parts[2] = WIFI /\ parts[1] \notin HotspotNames
             THEN <<parts[1]>> \o SavedFrom(Tail(rows))
             ELSE SavedFrom(Tail(rows))

get_saved_wifi_networks(o) ==
    IF o.res # "ok" THEN <<>> ELSE SavedFrom(o.rows)

(***************************************************************************)
(* scan_for_known_networks as a whole.  A line of `nmcli -t -f SSID device *)
(* wifi list` is compared unsplit (ScanLine).  The result is the snapshot  *)
(* (nets), whether the radio was cycled, the number of `wifi list`         *)
(* commands issued and whether the Scanner itself called activate_ap.      *)
(* The exit status of the two radio commands is not looked at (radio is    *)
(* "ok" when they return); one that raises reaches the except clause.      *)
(***************************************************************************)
Visible == Networks \cup {ColonNet}

ScanLine(n) == IF n = ColonNet THEN "Cafe\\:5G" ELSE n

ScanOutputs ==
    { [res |-> "ok", ssids |-> S] : S \in SUBSET Visible } \cup
    { [res |-> "fail", ssids |-> {}], [res |-> "raise", ssids |-> {}] }

RECURSIVE ScanTries(_, _, _)
ScanTries(saved, att, i) ==
    IF i > 3 THEN 0
    ELSE IF att[i].res = "raise" THEN 1
    ELSE IF att[i].res = "fail" THEN 1 + ScanTries(saved, att, i + 1)
    ELSE IF Known(saved, att[i].ssids) # <<>> THEN 1
    ELSE 1 + ScanTries(saved, att, i + 1)

\* a Scanner that leaves the AP to its caller
Scanner_NoActivate(o, radio, att, active) ==
    LET saved == get_saved_wifi_networks(o)
        lines == [i \in 1..3 |->
                     [res |-> att[i].res,
                      ssids |-> { ScanLine(n) : n \in att[i].ssids }]]
    IN IF saved = <<>> \/ radio = "raise"
           THEN [nets |-> <<>>, cycled |-> saved # <<>>, attempts |-> 0,
                 activate |-> FALSE]
           ELSE [nets |-> ScanAttempts(saved, lines, 1), cycled |-> TRUE,
                 attempts |-> ScanTries(saved, lines, 1),
                 activate |-> FALSE]

Scanner(o, radio, att, active) ==
    LET saved == get_saved_wifi_networks(o)
        lines == [i \in 1..3 |->
                     [res |-> att[i].res,
                      ssids |-> { ScanLine(n) : n \in att[i].ssids }]]
    IN IF saved = <<>>
           THEN [nets |-> <<>>, cycled |-> FALSE, attempts |-> 0,
                 activate |-> ~active]
       ELSE IF radio = "raise"
           THEN [nets |-> <<>>, cycled |-> TRUE, attempts |-> 0,
                 activate |-> ~active]
       ELSE LET nets == ScanAttempts(saved, lines, 1) IN
            [nets |-> nets, cycled |-> TRUE,
             attempts |-> ScanTries(saved, lines, 1),
             activate |-> (nets = <<>> /\ ~active)]

(***************************************************************************)
(* Client Connector: connect_to_wifi.  cmd is the outcome of               *)
(* `nmcli connection up`: returncode 0 ("ok"), a non-zero returncode with  *)
(* one of the messages the code tells apart ("auth", "not found",          *)
(* "timeout", "other"), TimeoutExpired ("expired") or another exception    *)
(* ("raise"); verified is the Observer's answer afterwards.                *)
(***************************************************************************)
ConnectCmdRes ==
    {"ok", "auth", "not found", "timeout", "other", "expired", "raise"}

\* a connector that trusts the command
connect_to_wifi_Unverified(cmd, verified) == cmd = "ok"

connect_to_wifi(cmd, verified) ==
    IF cmd \in {"expired", "raise"} THEN FALSE
    ELSE IF cmd # "ok" THEN FALSE
    ELSE verified

ConnectResults ==
    { connect_to_wifi(cmd, v) : cmd \in ConnectCmdRes, v \in ObserverVerdicts }

(***************************************************************************)
(* History of one poll cycle, cleared when the cycle begins.               *)
(***************************************************************************)
NewCycle ==
    [poll |-> TRUE,             \* a cycle of the loop (FALSE outside the loop)
     boot |-> "none",           \* the Observer's verdict at line 824, before
                                \* the loop (kept until the first cycle)
     startAp |-> FALSE,         \* what is_ap_active told update_status
     refreshed |-> FALSE,       \* update_status changed ap_active (kept
                                \* until the next step of the cycle)
     verdict |-> "none",        \* the Observer's verdict of the cycle
     obsAp |-> FALSE,           \* ap_active when the verdict was taken
     obsClients |-> FALSE,      \* Client Monitor's answer in the Connected branch
     streak |-> 0,              \* disconnected_count after its increment
     since |-> 0,               \* time_since_connected at the verdict
     recov |-> 0,               \* calls of restart_wifi_interface
     recovOk |-> FALSE,         \* restart_wifi_interface returned True
     trigAct |-> FALSE,         \* the threshold branch called activate_ap
     act |-> 0,                 \* calls of activate_ap
     actOk |-> FALSE,           \* some call of activate_ap returned True
     actFail |-> FALSE,         \* some call of activate_ap returned False
     actWhileActive |-> FALSE,  \* activate_ap was called with ap_active set
     actAfterOk |-> FALSE,      \* activate_ap was called after one returned True
     scanAct |-> FALSE,         \* the Scanner called activate_ap
     deact |-> 0,               \* calls of deactivate_ap
     clientsSeen |-> FALSE,     \* Client Monitor's answer at line 895
     skip |-> FALSE,            \* the clients-present branch was taken
     scans |-> 0,               \* calls of scan_for_known_networks
     scanGap |-> 0,             \* since_scan when the Scanner was called
     first |-> NoNet,           \* first entry of the snapshot
     connects |-> 0,            \* calls of connect_to_wifi
     target |-> NoNet,          \* the network connect_to_wifi was called on
     connOk |-> FALSE,          \* connect_to_wifi returned True
     prevConnOk |-> FALSE,      \* ... in the cycle before this one
     prevFailed |-> NoNet,      \* the network it returned False on in the
                                \* cycle before this one (kept until this
                                \* cycle has made or passed up its call)
     err |-> FALSE,             \* an uncaught error reached the except clause
     errAp |-> FALSE,           \* ap_active when it did
     errAct |-> FALSE,          \* the except clause called activate_ap
     blind |-> 0,               \* seconds of the longest single time.sleep
                                \* of the sleep that ended the cycle
     sig |-> FALSE,             \* a termination signal was handled
     sigAt |-> "none",          \* where the signal found the program
     sigAp |-> FALSE,           \* ap_active when it did
     sigDeact |-> FALSE]        \* the handler called deactivate_ap

\* bookkeeping of one more call of activate_ap
Activating(c) ==
    [c EXCEPT !.act = @ + 1,
              !.actWhileActive = @ \/ ap_active,
              !.actAfterOk = @ \/ c.actOk]

Call(target, ret) ==
    /\ pc' = target
    /\ stack' = <<ret>> \o stack

Return ==
    /\ pc' = Head(stack)
    /\ stack' = Tail(stack)

(***************************************************************************)
(* The four sleeps of the loop.  The sleep that ends a normal cycle is     *)
(* range(MAIN_LOOP_INTERVAL) calls of time.sleep(1), each after a look at  *)
(* self.running (lines 930-933); the forced-AP, clients-present and error  *)
(* sleeps are one call of time.sleep with the whole interval (lines 845,   *)
(* 898, 941).  SleepStep is the argument of one call, SleepCalls the       *)
(* number of calls.                                                        *)
(***************************************************************************)
\* sleeps that all go in steps of one second
SleepStep_Cooperative(p) == 1

SleepStep(p) ==
    CASE p = "sleep" -> 1
      [] p = "force_sleep" -> FORCE_AP_SLEEP_INTERVAL
      [] p = "client_sleep" -> MAIN_LOOP_INTERVAL
      [] p = "err_sleep" -> ERROR_SLEEP_INTERVAL

SleepCalls(p) == IF p = "sleep" THEN MAIN_LOOP_INTERVAL ELSE 1

Advance(interval, d) ==
    /\ time_since_connected' = Min(MaxAge, time_since_connected + interval + d)
    /\ time_since_check' = Min(MaxAge, time_since_check + interval + d)
    /\ since_scan' = Min(MaxAge, since_scan + interval + d)

(***************************************************************************)
(* What check_dependencies can find: `nmcli --version` runs ("ok"), exits  *)
(* non-zero ("fail": CalledProcessError) or cannot be started ("missing":  *)
(* FileNotFoundError); `systemctl is-active NetworkManager` prints         *)
(* "active", prints anything else ("inactive"), or cannot be run           *)
(* ("raise").  running is whether the NetworkManager service runs; a       *)
(* systemctl that answers tells the truth.                                 *)
(***************************************************************************)
DepInputs ==
    { d \in [nmcli : {"ok", "fail", "missing"},
             systemctl : {"active", "inactive", "raise"},
             running : BOOLEAN] :
        /\ d.systemctl = "active" => d.running
        /\ d.systemctl = "inactive" => ~d.running }

\* the facts of start-up, once run() no longer depends on them
NoDeps == [nmcli |-> "ok", systemctl |-> "active", running |-> TRUE]

\* no helper is being called on its own
Idle == [fn |-> "none"]

(***************************************************************************)
(* The state when WiPi() is constructed (lines 62-68): self.running is     *)
(* set, self.ap_active is unset and the signal handlers are registered.    *)
(* The values of run()'s locals (lines 830-833) are already in place:      *)
(* counters 0, last_connection_check = 0 (a scan is due) and               *)
(* last_connected_time = now.  main() has set the two module flags from    *)
(* the command line (lines 971-973); priorities are the values of          *)
(* PRIORITIZE_CLIENTS looked at.  The flag is read nowhere in the program, *)
(* so Init takes its default (line 52), and PriorityInit both values.      *)
(***************************************************************************)
Constructed(priorities) ==
    /\ pc = "boot"
    /\ stack = <<>>
    /\ running = TRUE
    /\ ap_active = FALSE
    /\ since_scan = MaxAge
    /\ deps \in DepInputs
    /\ exit_code = -1
    /\ unit = Idle
    /\ is_connected = FALSE
    /\ disconnected_count = 0
    /\ consecutive_failures = 0
    /\ time_since_connected = 0
    /\ time_since_check = MaxAge
    /\ available_networks = <<>>
    /\ ssid = NoNet
    /\ profiles \in 0..1
    /\ FORCE_AP_MODE \in BOOLEAN
    /\ PRIORITIZE_CLIENTS \in priorities
    /\ disc_run = 0
    /\ act_row = 0
    /\ cyc = [NewCycle EXCEPT !.poll = FALSE]

Init == Constructed({FALSE})

PriorityInit == Constructed(BOOLEAN)

(***************************************************************************)
(* __init__, lines 70-90: check_dependencies leaves through sys.exit(1)    *)
(* when nmcli cannot be run or exits non-zero, or when systemctl prints    *)
(* something other than "active"; a systemctl that cannot be run is only   *)
(* logged.  Then update_status reads self.ap_active from NetworkManager.   *)
(***************************************************************************)
\* a refresh that does not write the flag
update_status_Keeps(active, reported) == active

\* line 146: self.ap_active = self.is_ap_active()
update_status(active, reported) == reported

\* a check that looks at the tool only
DependenciesOk_ToolOnly(nmcli, systemctl) == nmcli = "ok"

DependenciesOk(nmcli, systemctl) ==
    IF nmcli # "ok" THEN FALSE
    ELSE IF systemctl = "raise" THEN TRUE
    ELSE systemctl = "active"

check_dependencies ==
    /\ pc = "boot"
    /\ act_row' = 0
    /\ since_scan' = since_scan
    /\ IF DependenciesOk(deps.nmcli, deps.systemctl)
           THEN /\ pc' = "start"
                /\ exit_code' = exit_code
                /\ \E reported \in BOOLEAN :
                      ap_active' = update_status(ap_active, reported)
           ELSE /\ pc' = "exited"
                /\ exit_code' = 1
                /\ ap_active' = ap_active
    /\ UNCHANGED << stack, running, is_connected, disconnected_count,
                    consecutive_failures, time_since_connected,
                    time_since_check, available_networks, ssid, profiles,
                    FORCE_AP_MODE, PRIORITIZE_CLIENTS,
                    disc_run, cyc, deps, unit >>

(***************************************************************************)
(* run(), lines 823-833: the check before the loop.  activate_ap is called *)
(* when is_wifi_connected answers False, and what it returns is only       *)
(* logged.                                                                 *)
(***************************************************************************)
\* a start that leaves the first activation to the thresholds of the loop
StartupActivates_Never(connected) == FALSE

\* line 824: if not self.is_wifi_connected()
StartupActivates(connected) == ~connected

Startup ==
    /\ pc = "start"
    /\ act_row' = 0
    /\ deps' = NoDeps
    /\ UNCHANGED << exit_code, unit >>
    /\ since_scan' = since_scan
    /\ \E v \in ObserverVerdicts :
          LET c == [cyc EXCEPT !.boot = IF v THEN "conn" ELSE "disc"] IN
          IF StartupActivates(v)
              THEN /\ Call("activate", "loop")
                   /\ cyc' = Activating(c)
              ELSE /\ pc' = "loop"
                   /\ stack' = stack
                   /\ cyc' = c
    /\ UNCHANGED << running, ap_active, is_connected, disconnected_count,
                    consecutive_failures, time_since_connected,
                    time_since_check, available_networks, ssid, profiles,
                    FORCE_AP_MODE, PRIORITIZE_CLIENTS, disc_run >>

(***************************************************************************)
(* Lines 835-846: the loop test, update_status (self.ap_active is read     *)
(* back from NetworkManager: is_ap_active) and the forced-AP branch.       *)
(***************************************************************************)
\* a loop that runs while the flag is cleared
LoopTest_Negated(flag) == ~flag

\* line 835: while self.running
LoopTest(flag) == flag

\* a forced mode that calls activate_ap in every iteration
ForceActivates_Always(active) == TRUE

ForceActivates(active) == ~active

BeginCycle ==
    /\ pc = "loop"
    /\ act_row' = 0
    /\ UNCHANGED << deps, exit_code, unit >>
    /\ since_scan' = since_scan
    /\ LoopTest(running)
    /\ \E reported \in BOOLEAN :
          /\ ap_active' = update_status(ap_active, reported)
          /\ LET active == update_status(ap_active, reported)
                 c == [NewCycle EXCEPT
                           !.prevConnOk = cyc.connOk,
                           !.prevFailed = IF cyc.connects = 1 /\ ~cyc.connOk
                                              THEN cyc.target ELSE NoNet,
                           !.startAp = reported,
                           !.refreshed = (active # ap_active)] IN
             IF FORCE_AP_MODE
                 THEN IF ForceActivates(active)
                          THEN /\ Call("activate", "force_sleep")
                               /\ cyc' = [c EXCEPT !.act = 1,
                                                   !.actWhileActive = active]
                          ELSE /\ pc' = "force_sleep"
                               /\ stack' = stack
                               /\ cyc' = c
                 ELSE /\ pc' = "observe"
                      /\ stack' = stack
                      /\ cyc' = c
    /\ UNCHANGED << running, is_connected, disconnected_count,
                    consecutive_failures, time_since_connected,
                    time_since_check, available_networks, ssid, profiles,
                    FORCE_AP_MODE, PRIORITIZE_CLIENTS, disc_run >>

ForceSleep ==
    /\ pc = "force_sleep"
    /\ act_row' = 0
    /\ UNCHANGED << deps, exit_code, unit >>
    /\ pc' = "loop"
    /\ cyc' = [cyc EXCEPT !.refreshed = FALSE, !.blind = SleepStep(pc)]
    /\ \E d \in CmdDelays : Advance(SleepCalls(pc) * SleepStep(pc), d)
    /\ UNCHANGED << stack, running, ap_active, is_connected,
                    disconnected_count, consecutive_failures,
                    available_networks, ssid, profiles, FORCE_AP_MODE,
                    PRIORITIZE_CLIENTS, disc_run >>

(***************************************************************************)
(* Lines 849-861: the verdict is Connected.  Counters and timestamp are    *)
(* reset; the AP is taken down when it is active without clients.          *)
(***************************************************************************)
\* an AP taken down whether or not clients are attached
DeactivationDue_IgnoresClients(active, clients) == active

\* the negation of the Client Monitor's answer dropped
DeactivationDue_Inverted(active, clients) == active /\ clients

DeactivationDue(active, clients) == active /\ ~clients

ObserveConnected ==
    /\ pc = "observe"
    /\ act_row' = 0
    /\ UNCHANGED << deps, exit_code, unit >>
    /\ since_scan' = since_scan
    /\ TRUE \in ObserverVerdicts
    /\ is_connected' = TRUE
    /\ disconnected_count' = 0
    /\ consecutive_failures' = 0
    /\ time_since_connected' = 0
    /\ disc_run' = 0
    /\ \E stations \in BOOLEAN :
          LET clients == has_connected_clients(ap_active, stations)
              c == [cyc EXCEPT !.verdict = "conn", !.obsAp = ap_active,
                               !.obsClients = clients, !.prevFailed = NoNet,
                               !.refreshed = FALSE]
          IN IF DeactivationDue(ap_active, clients)
                 THEN /\ Call("deactivate", "clients")
                      /\ cyc' = [c EXCEPT !.deact = @ + 1]
                 ELSE /\ pc' = "clients"
                      /\ stack' = stack
                      /\ cyc' = c
    /\ UNCHANGED << running, ap_active, time_since_check, available_networks,
                    ssid, profiles, FORCE_AP_MODE, PRIORITIZE_CLIENTS >>

(***************************************************************************)
(* Lines 862-892: the verdict is Disconnected.  Both counters grow by one, *)
(* the interface is restarted at INTERFACE_RESTART_THRESHOLD failures, and *)
(* the AP is activated on the count or the time trigger; what              *)
(* restart_wifi_interface returns (up) is not looked at.  A run of         *)
(* Disconnected verdicts has no end: disconnected_count, which the code    *)
(* only compares with 1, 2 and DISCONNECT_COUNT_THRESHOLD, is kept up to   *)
(* MaxRun, and disc_run beyond MaxRun modulo INTERFACE_RESTART_THRESHOLD.  *)
(***************************************************************************)
\* a recovery that comes one failure late
RestartDue_Late(failures) == failures > INTERFACE_RESTART_THRESHOLD

RestartDue(failures) == failures >= INTERFACE_RESTART_THRESHOLD

\* an off-by-one count trigger
CountTrigger_Late(count) == count > DISCONNECT_COUNT_THRESHOLD

CountTrigger(count) == count >= DISCONNECT_COUNT_THRESHOLD

\* a loop without the time trigger
TimeTrigger_Never(since) == FALSE

TimeTrigger(since) == since > DISCONNECT_TIME_THRESHOLD

\* a trigger that forgets the time since the last connection
ActivationDue_CountOnly(count, since, active) == CountTrigger(count) /\ ~active

ActivationDue(count, since, active) ==
    (CountTrigger(count) \/ TimeTrigger(since)) /\ ~active

\* a recovery that clears both counters
AfterRestart_ResetsBoth(count, failures) ==
    [disconnected_count |-> 0, consecutive_failures |-> 0]

AfterRestart(count, failures) ==
    [disconnected_count |-> count, consecutive_failures |-> 0]

ObserveDisconnected ==
    /\ pc = "observe"
    /\ act_row' = 0
    /\ UNCHANGED << deps, exit_code, unit >>
    /\ since_scan' = since_scan
    /\ FALSE \in ObserverVerdicts
    /\ is_connected' = FALSE
    /\ disc_run' = IF disc_run < MaxRun
                       THEN disc_run + 1
                       ELSE disc_run + 1 - INTERFACE_RESTART_THRESHOLD
    /\ \E up \in BOOLEAN :
       LET count == Min(MaxRun, disconnected_count + 1)
           failures == consecutive_failures + 1
           restart == RestartDue(failures)
           after == IF restart
                       THEN AfterRestart(count, failures)
                       ELSE [disconnected_count |-> count,
                             consecutive_failures |-> failures]
           c == [cyc EXCEPT !.verdict = "disc", !.obsAp = ap_active,
                            !.streak = count,
                            !.since = time_since_connected,
                            !.recov = IF restart THEN @ + 1 ELSE @,
                            !.recovOk = restart /\ up,
                            !.refreshed = FALSE]
       IN /\ disconnected_count' = after.disconnected_count
          /\ consecutive_failures' = after.consecutive_failures
          /\ IF ActivationDue(count, time_since_connected, ap_active)
                 THEN /\ Call("activate", "clients")
                      /\ cyc' = [Activating(c) EXCEPT !.trigAct = TRUE]
                 ELSE /\ pc' = "clients"
                      /\ stack' = stack
                      /\ cyc' = c
    /\ UNCHANGED << running, ap_active, time_since_connected,
                    time_since_check, available_networks, ssid, profiles,
                    FORCE_AP_MODE, PRIORITIZE_CLIENTS >>

(***************************************************************************)
(* activate_ap: a no-op returning True when the AP is already active,      *)
(* otherwise the fallback chain.  A step that succeeds sets self.ap_active *)
(* and goes on to restart NetworkManager before it returns True.           *)
(***************************************************************************)
Activate ==
    /\ pc = "activate"
    /\ act_row' = IF ap_active THEN act_row ELSE act_row + 1
    /\ UNCHANGED << deps, exit_code, unit >>
    /\ since_scan' = since_scan
    /\ IF ap_active
           THEN /\ Return
                /\ UNCHANGED << ap_active, profiles, cyc >>
           ELSE \E o \in ActOutcomes[profiles] :
                   /\ ap_active' = o.active
                   /\ profiles' = o.profiles
                   /\ cyc' = [cyc EXCEPT !.actOk = @ \/ o.ok,
                                         !.actFail = @ \/ ~o.ok,
                                         !.refreshed = FALSE]
                   /\ IF o.ok
                          THEN /\ pc' = "activate_nm"
                               /\ stack' = stack
                          ELSE Return
    /\ UNCHANGED << running, is_connected, disconnected_count,
                    consecutive_failures, time_since_connected,
                    time_since_check, available_networks, ssid,
                    FORCE_AP_MODE, PRIORITIZE_CLIENTS, disc_run >>

\* lines 559-575 and 663-679: the restart of NetworkManager, whose failure
\* is only logged, and `return True`
ActivateRestart ==
    /\ pc = "activate_nm"
    /\ act_row' = act_row
    /\ Return
    /\ UNCHANGED << running, ap_active, is_connected, disconnected_count,
                    consecutive_failures, time_since_connected,
                    time_since_check, available_networks, ssid, profiles,
                    FORCE_AP_MODE, PRIORITIZE_CLIENTS,
                    disc_run, cyc, since_scan, deps,
                    exit_code, unit >>

(***************************************************************************)
(* deactivate_ap: a no-op returning True when the AP is already inactive.  *)
(***************************************************************************)
Deactivate ==
    /\ pc = "deactivate"
    /\ act_row' = 0
    /\ UNCHANGED << deps, exit_code, unit >>
    /\ since_scan' = since_scan
    /\ Return
    /\ IF ~ap_active
           THEN UNCHANGED ap_active
           ELSE \E o \in DeactOutcomes[profiles] : ap_active' = o.active
    /\ UNCHANGED << running, is_connected, disconnected_count,
                    consecutive_failures, time_since_connected,
                    time_since_check, available_networks, ssid, profiles,
                    FORCE_AP_MODE, PRIORITIZE_CLIENTS, disc_run, cyc >>

(***************************************************************************)
(* Lines 894-904: with clients on the AP the cycle ends here; otherwise a  *)
(* scan is made when the verdict is Disconnected and CHECK_INTERVAL has    *)
(* passed since the last one.                                              *)
(***************************************************************************)
\* a loop that heeds attached clients only under --prioritize-clients
ClientsPresent_WhenPrioritized(active, clients) ==
    PRIORITIZE_CLIENTS /\ active /\ clients

\* a loop that scans whether or not clients are attached
ClientsPresent_Ignored(active, clients) == FALSE

ClientsPresent(active, clients) == active /\ clients

\* a loop that scans whatever the verdict
ScanDue_AnyVerdict(connected, since) == since >= CHECK_INTERVAL

\* a loop that scans in every Disconnected cycle
ScanDue_NoLimit(connected, since) == ~connected

ScanDue(connected, since) == ~connected /\ since >= CHECK_INTERVAL

CheckClients ==
    /\ pc = "clients"
    /\ act_row' = 0
    /\ UNCHANGED << deps, exit_code, unit >>
    /\ \E stations \in BOOLEAN :
          LET clients == has_connected_clients(ap_active, stations)
              c == [cyc EXCEPT !.clientsSeen = clients]
          IN IF ClientsPresent(ap_active, clients)
                 THEN /\ pc' = "client_sleep"
                      /\ cyc' = [c EXCEPT !.skip = TRUE,
                                          !.prevFailed = NoNet]
                      /\ since_scan' = since_scan
                 ELSE IF ScanDue(is_connected, time_since_check)
                          THEN /\ pc' = "scan"
                               /\ cyc' = [c EXCEPT !.scans = @ + 1,
                                                   !.scanGap = since_scan]
                               /\ since_scan' = 0
                          ELSE /\ pc' = "sleep"
                               /\ cyc' = [c EXCEPT !.prevFailed = NoNet]
                               /\ since_scan' = since_scan
    /\ UNCHANGED << stack, running, ap_active, is_connected,
                    disconnected_count, consecutive_failures,
                    time_since_connected, time_since_check,
                    available_networks, ssid, profiles, FORCE_AP_MODE,
                    PRIORITIZE_CLIENTS, disc_run >>

ClientSleep ==
    /\ pc = "client_sleep"
    /\ act_row' = 0
    /\ UNCHANGED << deps, exit_code, unit >>
    /\ pc' = "loop"
    /\ cyc' = [cyc EXCEPT !.blind = SleepStep(pc)]
    /\ \E d \in CmdDelays : Advance(SleepCalls(pc) * SleepStep(pc), d)
    /\ UNCHANGED << stack, running, ap_active, is_connected,
                    disconnected_count, consecutive_failures,
                    available_networks, ssid, profiles, FORCE_AP_MODE,
                    PRIORITIZE_CLIENTS, disc_run >>

(***************************************************************************)
(* scan_for_known_networks: the snapshot, and the Scanner's own call of    *)
(* activate_ap when it has nothing to offer and the AP is inactive (no     *)
(* saved network, no known network visible, or an error).                  *)
(***************************************************************************)
\* a Scanner that does not look at self.ap_active
ScannerActivates_Always(result, active) == result = <<>>

ScannerActivates(result, active) == result = <<>> /\ ~active

Scan ==
    /\ pc = "scan"
    /\ act_row' = 0
    /\ UNCHANGED << deps, exit_code, unit >>
    /\ since_scan' = since_scan
    /\ \E r \in ScanResults :
          /\ available_networks' = r
          /\ LET c == [cyc EXCEPT !.first = IF r = <<>> THEN NoNet ELSE r[1]] IN
             IF ScannerActivates(r, ap_active)
                 THEN /\ Call("activate", "scan_ret")
                      /\ cyc' = [Activating(c) EXCEPT !.scanAct = TRUE]
                 ELSE /\ pc' = "scan_ret"
                      /\ stack' = stack
                      /\ cyc' = c
    /\ UNCHANGED << running, ap_active, is_connected, disconnected_count,
                    consecutive_failures, time_since_connected,
                    time_since_check, ssid, profiles, FORCE_AP_MODE,
                    PRIORITIZE_CLIENTS, disc_run >>

(***************************************************************************)
(* Lines 905-909 and 919-923: the scan is timestamped; connect_to_wifi is  *)
(* called on the first entry of a non-empty snapshot, and an empty one     *)
(* makes run() ensure the AP.                                              *)
(***************************************************************************)
\* the last entry of the snapshot instead of the first
ConnectTarget_Last(networks) == networks[Len(networks)]

ConnectTarget(networks) == networks[1]

\* a loop that passes over the network its last connect_to_wifi failed on
ConnectDue_SkipFailed(networks, failed) ==
    networks # <<>> /\ networks[1] # failed

\* line 907: if available_networks (what failed before is not remembered)
ConnectDue(networks, failed) == networks # <<>>

\* a loop that leaves the AP alone after a scan that brought no connection
EnsureDue_Never(active) == FALSE

\* lines 917 and 922: if not self.ap_active
EnsureDue(active) == ~active

ScanReturn ==
    /\ pc = "scan_ret"
    /\ act_row' = act_row
    /\ UNCHANGED << deps, exit_code, unit >>
    /\ since_scan' = since_scan
    /\ time_since_check' = 0
    /\ IF ConnectDue(available_networks, cyc.prevFailed)
           THEN /\ pc' = "connect"
                /\ stack' = stack
                /\ ssid' = ConnectTarget(available_networks)
                /\ cyc' = [cyc EXCEPT !.connects = @ + 1,
                                      !.target = ConnectTarget(available_networks)]
           ELSE /\ ssid' = ssid
                /\ IF EnsureDue(ap_active)
                       THEN /\ Call("activate", "sleep")
                            /\ cyc' = [Activating(cyc) EXCEPT
                                           !.prevFailed = NoNet]
                       ELSE /\ pc' = "sleep"
                            /\ stack' = stack
                            /\ cyc' = [cyc EXCEPT !.prevFailed = NoNet]
    /\ UNCHANGED << running, ap_active, is_connected, disconnected_count,
                    consecutive_failures, time_since_connected,
                    available_networks, profiles, FORCE_AP_MODE,
                    PRIORITIZE_CLIENTS, disc_run >>

(***************************************************************************)
(* connect_to_wifi and lines 910-918: success resets disconnected_count    *)
(* and leaves the AP alone; failure makes run() ensure the AP.             *)
(***************************************************************************)
\* a loop that keeps the count after a successful connect
AfterConnect_Keeps(count) == count

\* line 913: disconnected_count = 0
AfterConnect(count) == 0

Connect ==
    /\ pc = "connect"
    /\ act_row' = 0
    /\ UNCHANGED << deps, exit_code, unit >>
    /\ since_scan' = since_scan
    /\ ssid' = NoNet
    /\ available_networks' = <<>>
    /\ \E ok \in ConnectResults :
          IF ok
              THEN /\ disconnected_count' = AfterConnect(disconnected_count)
                   /\ pc' = "sleep"
                   /\ stack' = stack
                   /\ cyc' = [cyc EXCEPT !.connOk = TRUE,
                                         !.prevFailed = NoNet]
              ELSE /\ disconnected_count' = disconnected_count
                   /\ IF EnsureDue(ap_active)
                          THEN /\ Call("activate", "sleep")
                               /\ cyc' = [Activating(cyc) EXCEPT
                                              !.prevFailed = NoNet]
                          ELSE /\ pc' = "sleep"
                               /\ stack' = stack
                               /\ cyc' = [cyc EXCEPT !.prevFailed = NoNet]
    /\ UNCHANGED << running, ap_active, is_connected, consecutive_failures,
                    time_since_connected, time_since_check, profiles,
                    FORCE_AP_MODE, PRIORITIZE_CLIENTS, disc_run >>

(***************************************************************************)
(* Lines 925-933: display_status and the sleep to the next cycle.          *)
(***************************************************************************)
Sleep ==
    /\ pc = "sleep"
    /\ act_row' = 0
    /\ UNCHANGED << deps, exit_code, unit >>
    /\ pc' = "loop"
    /\ cyc' = [cyc EXCEPT !.blind = SleepStep(pc)]
    /\ \E d \in CmdDelays : Advance(SleepCalls(pc) * SleepStep(pc), d)
    /\ UNCHANGED << stack, running, ap_active, is_connected,
                    disconnected_count, consecutive_failures,
                    available_networks, ssid, profiles, FORCE_AP_MODE,
                    PRIORITIZE_CLIENTS, disc_run >>

(***************************************************************************)
(* Lines 935-941: an exception that none of the helpers caught.  The       *)
(* helpers catch their own, so it is raised between them, by a statement   *)
(* of run() itself.  Between the Scanner's return and line 905 there is    *)
(* none: the stamp is the statement that follows the call.                 *)
(***************************************************************************)
TryPoints ==
    {"observe", "clients", "sleep", "client_sleep", "force_sleep"}

UncaughtError ==
    /\ pc \in TryPoints
    /\ act_row' = 0
    /\ UNCHANGED << deps, exit_code, unit >>
    /\ since_scan' = since_scan
    /\ pc' = "except"
    /\ cyc' = [cyc EXCEPT !.err = TRUE, !.errAp = ap_active,
                          !.prevFailed = NoNet, !.refreshed = FALSE]
    /\ UNCHANGED << stack, running, ap_active, is_connected,
                    disconnected_count, consecutive_failures,
                    time_since_connected, time_since_check,
                    available_networks, ssid, profiles, FORCE_AP_MODE,
                    PRIORITIZE_CLIENTS, disc_run >>

\* a handler that leaves the AP as it is
FallbackDue_Never(active) == FALSE

FallbackDue(active) == ~active

Except ==
    /\ pc = "except"
    /\ act_row' = act_row
    /\ UNCHANGED << deps, exit_code, unit >>
    /\ since_scan' = since_scan
    /\ IF FallbackDue(ap_active)
           THEN /\ Call("activate", "err_sleep")
                /\ cyc' = [Activating(cyc) EXCEPT !.errAct = TRUE]
           ELSE /\ pc' = "err_sleep"
                /\ stack' = stack
                /\ cyc' = cyc
    /\ UNCHANGED << running, ap_active, is_connected, disconnected_count,
                    consecutive_failures, time_since_connected,
                    time_since_check, available_networks, ssid, profiles,
                    FORCE_AP_MODE, PRIORITIZE_CLIENTS, disc_run >>

ErrSleep ==
    /\ pc = "err_sleep"
    /\ act_row' = 0
    /\ UNCHANGED << deps, exit_code, unit >>
    /\ pc' = "loop"
    /\ cyc' = [cyc EXCEPT !.blind = SleepStep(pc)]
    /\ \E d \in CmdDelays : Advance(SleepCalls(pc) * SleepStep(pc), d)
    /\ UNCHANGED << stack, running, ap_active, is_connected,
                    disconnected_count, consecutive_failures,
                    available_networks, ssid, profiles, FORCE_AP_MODE,
                    PRIORITIZE_CLIENTS, disc_run >>

(***************************************************************************)
(* handle_signal: SIGINT or SIGTERM, at any point of run().  The handler   *)
(* clears self.running, takes the AP down when self.ap_active is set and   *)
(* leaves through sys.exit(0), which no except clause of run() catches.    *)
(* The locals of run() (verdict, counters, clocks, snapshot) and the       *)
(* history of the cycle end with the process; what is kept is what the     *)
(* handler found and did.                                                  *)
(***************************************************************************)
\* a handler that leaves the AP to the restart of NetworkManager
ShutdownDeactivates_Never(active) == FALSE

ShutdownDeactivates(active) == active

handle_signal ==
    /\ pc \notin {"exited", "unit"}
    /\ act_row' = 0
    /\ UNCHANGED << deps, unit >>
    /\ since_scan' = 0
    /\ pc' = "exited"
    /\ exit_code' = 0
    /\ stack' = <<>>
    /\ running' = FALSE
    /\ cyc' = [NewCycle EXCEPT
                   !.poll = FALSE, !.sig = TRUE, !.sigAt = pc,
                   !.sigAp = ap_active,
                   !.sigDeact = ShutdownDeactivates(ap_active)]
    /\ IF ShutdownDeactivates(ap_active)
           THEN IF ap_active
                    THEN \E o \in DeactOutcomes[profiles] :
                            ap_active' = o.active
                    ELSE ap_active' = ap_active
           ELSE ap_active' = ap_active
    /\ time_since_connected' = 0
    /\ time_since_check' = 0
    /\ available_networks' = <<>>
    /\ ssid' = NoNet
    /\ is_connected' = FALSE
    /\ disconnected_count' = 0
    /\ consecutive_failures' = 0
    /\ disc_run' = 0
    /\ UNCHANGED << profiles, FORCE_AP_MODE, PRIORITIZE_CLIENTS >>

Next ==
    \/ check_dependencies
    \/ Startup
    \/ BeginCycle
    \/ ForceSleep
    \/ ObserveConnected
    \/ ObserveDisconnected
    \/ Activate
    \/ ActivateRestart
    \/ Deactivate
    \/ CheckClients
    \/ ClientSleep
    \/ Scan
    \/ ScanReturn
    \/ Connect
    \/ Sleep
    \/ UncaughtError
    \/ Except
    \/ ErrSleep
    \/ handle_signal

Spec == Init /\ [][Next]_vars

(***************************************************************************)
(* The steps of the program itself.  It is one sequential process; as     *)
(* long as every command it runs returns (those run without a timeout      *)
(* included) it goes on taking steps for as long as it has one to take.    *)
(* A signal may or may not arrive.                                         *)
(***************************************************************************)
Progress ==
    \/ check_dependencies
    \/ Startup
    \/ BeginCycle
    \/ ForceSleep
    \/ ObserveConnected
    \/ ObserveDisconnected
    \/ Activate
    \/ ActivateRestart
    \/ Deactivate
    \/ CheckClients
    \/ ClientSleep
    \/ Scan
    \/ ScanReturn
    \/ Connect
    \/ Sleep
    \/ UncaughtError
    \/ Except
    \/ ErrSleep

FairSpec == Spec /\ WF_vars(Progress)

(***************************************************************************)
(* Commands that need not return.  subprocess.run is given no timeout in   *)
(* get_current_wifi and is_ap_active (update_status, and the re-query of   *)
(* activate_ap), has_connected_clients (called with self.ap_active set     *)
(* from the Connected branch, line 895 and display_status),                *)
(* get_saved_wifi_networks and scan_for_known_networks, and deactivate_ap  *)
(* past its guard.  Untimed(p, active) is whether the step at p runs such  *)
(* a command; Hang is one of them never returning: run() stays where it    *)
(* is, and only a signal still ends the process.                           *)
(***************************************************************************)
Untimed(p, active) ==
    \/ p \in {"loop", "scan"}
    \/ p \in {"observe", "clients", "sleep", "deactivate"} /\ active
    \/ p = "activate" /\ ~active

Hang ==
    /\ Untimed(pc, ap_active)
    /\ pc' = "hung"
    /\ stack' = <<pc>>
    /\ cyc' = [NewCycle EXCEPT !.poll = cyc.poll]
    /\ act_row' = 0
    /\ since_scan' = 0
    /\ time_since_connected' = 0
    /\ time_since_check' = 0
    /\ available_networks' = <<>>
    /\ ssid' = NoNet
    /\ UNCHANGED << running, ap_active, is_connected, disconnected_count,
                    consecutive_failures, profiles, FORCE_AP_MODE,
                    PRIORITIZE_CLIENTS, disc_run,
                    deps, exit_code, unit >>

HangNext == Next \/ Hang

HangSpec == Init /\ [][HangNext]_vars /\ WF_vars(Progress)

\* the program started with and without --prioritize-clients
PrioritySpec == PriorityInit /\ [][Next]_vars

(***************************************************************************)
(* The helpers called on their own, on every combination of the outcomes   *)
(* of their commands.                                                      *)
(***************************************************************************)
ObserverCalls ==
    { [fn |-> "is_wifi_connected", ip |-> ip, nm |-> nm, ping |-> ping,
       route |-> route, done |-> FALSE, out |-> FALSE] :
          ip \in IpRes, nm \in NmRes, ping \in CmdRes, route \in RouteRes }

ConnectCalls ==
    { [fn |-> "connect_to_wifi", cmd |-> cmd, ip |-> ip, nm |-> nm,
       ping |-> ping, route |-> route, done |-> FALSE, out |-> FALSE] :
          cmd \in ConnectCmdRes, ip \in IpRes, nm \in NmRes,
          ping \in CmdRes, route \in RouteRes }

ActivateCalls ==
    { [fn |-> "activate_ap", p |-> p, r |-> r, done |-> FALSE,
       out |-> ActFail(p)] :
          p \in 0..MaxProfiles, r \in ActInputs }

DeactivateCalls ==
    { [fn |-> "deactivate_ap", active |-> a, p |-> p, r |-> r,
       done |-> FALSE, out |-> [ok |-> FALSE, active |-> a, profiles |-> p]] :
          a \in BOOLEAN, p \in 0..MaxProfiles,
          r \in [list : CmdRes, down : CmdRes] }

ScannerCalls ==
    { [fn |-> "scan_for_known_networks", saved |-> o, radio |-> radio,
       att |-> att, active |-> a, done |-> FALSE,
       out |-> [nets |-> <<>>, cycled |-> FALSE, attempts |-> 0,
                activate |-> FALSE]] :
          o \in SavedOutputs, radio \in {"ok", "raise"},
          att \in [1..3 -> ScanOutputs], a \in BOOLEAN }

UnitCalls ==
    ObserverCalls \cup ConnectCalls \cup ActivateCalls \cup DeactivateCalls

\* a helper is about to be called on inputs drawn from calls
UnitStart(calls) ==
    /\ pc = "unit"
    /\ unit \in calls
    /\ stack = <<>>
    /\ running = TRUE
    /\ ap_active = (/\ unit.fn \in {"deactivate_ap", "scan_for_known_networks"}
                    /\ unit.active)
    /\ is_connected = FALSE
    /\ disconnected_count = 0
    /\ consecutive_failures = 0
    /\ time_since_connected = 0
    /\ time_since_check = MaxAge
    /\ available_networks = <<>>
    /\ ssid = NoNet
    /\ profiles = IF unit.fn \in {"activate_ap", "deactivate_ap"}
                      THEN unit.p ELSE 0
    /\ FORCE_AP_MODE = FALSE
    /\ PRIORITIZE_CLIENTS = FALSE
    /\ disc_run = 0
    /\ act_row = 0
    /\ cyc = [NewCycle EXCEPT !.poll = FALSE]
    /\ since_scan = MaxAge
    /\ deps = NoDeps
    /\ exit_code = -1

UnitInit == UnitStart(UnitCalls)

ScanInit == UnitStart(ScannerCalls)

UnitFrame ==
    UNCHANGED << stack, running, is_connected, disconnected_count,
                 consecutive_failures, time_since_connected,
                 time_since_check, available_networks, ssid, FORCE_AP_MODE,
                 PRIORITIZE_CLIENTS, disc_run, act_row, cyc, since_scan,
                 deps, exit_code >>

CallObserver ==
    /\ pc = "unit"
    /\ unit.fn = "is_wifi_connected"
    /\ ~unit.done
    /\ unit' = [unit EXCEPT
                   !.done = TRUE,
                   !.out = is_wifi_connected(unit.ip, unit.nm, unit.ping,
                                             unit.route)]
    /\ UNCHANGED << pc, ap_active, profiles >>
    /\ UnitFrame

CallConnect ==
    /\ pc = "unit"
    /\ unit.fn = "connect_to_wifi"
    /\ ~unit.done
    /\ unit' = [unit EXCEPT
                   !.done = TRUE,
                   !.out = connect_to_wifi(unit.cmd,
                               is_wifi_connected(unit.ip, unit.nm, unit.ping,
                                                 unit.route))]
    /\ UNCHANGED << pc, ap_active, profiles >>
    /\ UnitFrame

CallActivate ==
    /\ pc = "unit"
    /\ unit.fn = "activate_ap"
    /\ ~unit.done
    /\ LET o == activate_ap(unit.p, unit.r) IN
          /\ unit' = [unit EXCEPT !.done = TRUE, !.out = o]
          /\ ap_active' = o.active
          /\ profiles' = o.profiles
    /\ pc' = pc
    /\ UnitFrame

\* lines 693-695 and the body of deactivate_ap
CallDeactivate ==
    /\ pc = "unit"
    /\ unit.fn = "deactivate_ap"
    /\ ~unit.done
    /\ LET o == IF ~ap_active
                    THEN [ok |-> TRUE, active |-> FALSE, profiles |-> profiles]
                    ELSE deactivate_ap(profiles, unit.r) IN
          /\ unit' = [unit EXCEPT !.done = TRUE, !.out = o]
          /\ ap_active' = o.active
          /\ profiles' = o.profiles
    /\ pc' = pc
    /\ UnitFrame

\* scan_for_known_networks up to its return or its call of activate_ap
CallScanner ==
    /\ pc = "unit"
    /\ unit.fn = "scan_for_known_networks"
    /\ ~unit.done
    /\ unit' = [unit EXCEPT
                   !.done = TRUE,
                   !.out = Scanner(unit.saved, unit.radio, unit.att,
                                   ap_active)]
    /\ UNCHANGED << pc, ap_active, profiles >>
    /\ UnitFrame

UnitNext ==
    \/ CallObserver
    \/ CallConnect
    \/ CallActivate
    \/ CallDeactivate

UnitSpec == UnitInit /\ [][UnitNext]_vars

ScanNext == CallScanner

ScanSpec == ScanInit /\ [][ScanNext]_vars

(***************************************************************************)
(* Properties.                                                             *)
(***************************************************************************)

\* C1 (fail open): when an uncaught error reaches the except clause of the
\* loop, the handler calls activate_ap exactly when self.ap_active was
\* unset, the call returns into the error back-off sleep, and the sleep
\* leads to the loop test with self.running still set, where the next cycle
\* can begin; only a termination signal leaves this path.
FailOpenState ==
    /\ pc = "except" => running /\ cyc.err /\ stack = <<>>
    /\ pc = "activate" /\ cyc.errAct => stack = <<"err_sleep">> /\ ~cyc.errAp
    /\ pc = "err_sleep" =>
          /\ running
          /\ cyc.err
          /\ cyc.errAct <=> ~cyc.errAp
          /\ ENABLED ErrSleep
    /\ pc = "loop" /\ cyc.err => running /\ ENABLED BeginCycle

FailOpenStep ==
    /\ pc = "except" => pc' \in {"activate", "err_sleep", "exited"}
    /\ pc = "err_sleep" => pc' \in {"loop", "exited"}

FailOpen == []FailOpenState /\ [][FailOpenStep]_vars

\* C1 witness: the error struck with the AP inactive, the handler's
\* activation succeeded and the loop is about to begin its next cycle.
FailOpenWitness ==
    /\ pc = "loop"
    /\ running
    /\ cyc.err
    /\ ~cyc.errAp
    /\ cyc.errAct
    /\ ap_active

\* C2 (count trigger): in a cycle whose verdict is Disconnected, whose
\* disconnected_count after the increment has reached
\* DISCONNECT_COUNT_THRESHOLD and whose ap_active is unset, the threshold
\* branch calls activate_ap in that same cycle.
CountTriggerActivates ==
    (cyc.poll /\ cyc.verdict = "disc" /\ ~cyc.obsAp
        /\ cyc.streak >= DISCONNECT_COUNT_THRESHOLD)
    => cyc.trigAct /\ cyc.act >= 1

\* C2 witness: the count trigger alone (the time trigger is not met) has
\* called activate_ap.
CountTriggerWitness ==
    /\ pc = "activate"
    /\ cyc.poll
    /\ cyc.verdict = "disc"
    /\ cyc.streak = DISCONNECT_COUNT_THRESHOLD
    /\ cyc.since <= DISCONNECT_TIME_THRESHOLD
    /\ cyc.trigAct
    /\ ~ap_active

\* C3 (time trigger): in a Disconnected cycle with ap_active unset and
\* disconnected_count below DISCONNECT_COUNT_THRESHOLD, more than
\* DISCONNECT_TIME_THRESHOLD seconds since the last connection make the
\* threshold branch call activate_ap in that cycle.
TimeTriggerActivates ==
    (cyc.poll /\ cyc.verdict = "disc" /\ ~cyc.obsAp
        /\ cyc.streak < DISCONNECT_COUNT_THRESHOLD
        /\ cyc.since > DISCONNECT_TIME_THRESHOLD)
    => cyc.trigAct /\ cyc.act >= 1

\* C3 witness: the time trigger fires on the first Disconnected verdict.
TimeTriggerWitness ==
    /\ pc = "activate"
    /\ cyc.poll
    /\ cyc.verdict = "disc"
    /\ cyc.streak = 1
    /\ cyc.since > DISCONNECT_TIME_THRESHOLD
    /\ cyc.trigAct
    /\ cyc.act = 1
    /\ ~ap_active

\* C4 (clients keep the Scanner away): in a cycle in which the Client
\* Monitor has reported clients (which it does only with ap_active set),
\* neither scan_for_known_networks nor connect_to_wifi is called, whatever
\* the verdict.
ClientsBlockScan ==
    (cyc.obsClients \/ cyc.clientsSeen) => cyc.scans = 0 /\ cyc.connects = 0

\* C4 witness: a Disconnected cycle in which a scan was due is ended by the
\* clients-present branch, after at least five Disconnected verdicts in a row.
ClientsBlockScanWitness ==
    /\ pc = "client_sleep"
    /\ cyc.verdict = "disc"
    /\ cyc.clientsSeen
    /\ ap_active
    /\ disc_run >= 5
    /\ time_since_check >= CHECK_INTERVAL
    /\ cyc.scans = 0

\* C5 (reconcile on Connected): in a cycle whose verdict is Connected with
\* ap_active set and no clients reported, the loop calls deactivate_ap
\* exactly once, and the cycle holds no scan; no cycle holds two calls.
DeactivateOnceWhenConnected ==
    /\ cyc.deact <= 1
    /\ (cyc.poll /\ cyc.verdict = "conn" /\ cyc.obsAp /\ ~cyc.obsClients)
       => cyc.deact = 1 /\ cyc.scans = 0

\* C5 witness: the call made by the Connected branch has returned with the
\* AP down.
DeactivateOnceWitness ==
    /\ pc = "clients"
    /\ cyc.verdict = "conn"
    /\ cyc.obsAp
    /\ ~cyc.obsClients
    /\ cyc.deact = 1
    /\ ~ap_active

\* C6 (idempotent AP Controller), the part the code decides against: two
\* bodies of activate_ap run in a row, with nothing but the return of the
\* first between them, leave at most one saved hotspot profile.
ActivateTwiceOneProfile ==
    act_row >= 2 => profiles <= 1

\* C7 (interface recovery): restart_wifi_interface is called in a
\* Disconnected cycle exactly when the number of Disconnected verdicts in a
\* row reaches a multiple of INTERFACE_RESTART_THRESHOLD (first at the
\* 12th, never earlier) and at most once in a cycle; consecutive_failures is
\* that number modulo the threshold, hence 0 from the recovery on to the
\* start of the next cycle; and disconnected_count keeps the value its
\* increment gave it, recovery or not, until a successful connect.
RecoveryAtThreshold ==
    /\ cyc.recov <= 1
    /\ consecutive_failures = disc_run % INTERFACE_RESTART_THRESHOLD
    /\ (cyc.poll /\ cyc.verdict = "disc") =>
          /\ cyc.recov = 1 <=> disc_run % INTERFACE_RESTART_THRESHOLD = 0
          /\ ~cyc.connOk => disconnected_count = cyc.streak
          /\ cyc.streak >= 1

\* C7 witness: the 13th cycle starts after 12 Disconnected verdicts in a
\* row, the 12th of which restarted the interface.
RecoveryWitness ==
    /\ pc = "observe"
    /\ disc_run = INTERFACE_RESTART_THRESHOLD
    /\ disconnected_count = INTERFACE_RESTART_THRESHOLD
    /\ consecutive_failures = 0

\* C8 as claimed: a poll cycle holds at most one call of activate_ap, made
\* with ap_active unset (stated for the cycles without an uncaught error
\* and without a call by the Scanner, where it already fails).
ActivateAtMostOnce ==
    (cyc.poll /\ ~cyc.err /\ ~cyc.scanAct)
    => cyc.act <= 1 /\ ~cyc.actWhileActive

\* C8 as amended: in a poll cycle every call of activate_ap is made with
\* ap_active unset and none follows a call that returned True in that
\* cycle; calls that fail can be followed by further ones, up to three in a
\* cycle that runs to its sleep (threshold branch, Scanner, empty-snapshot
\* or failed-connect branch) and one more in the except clause.
ActivateOnlyWhileInactive ==
    cyc.poll =>
        /\ ~cyc.actWhileActive
        /\ ~cyc.actAfterOk
        /\ cyc.act <= 4
        /\ ~cyc.err => cyc.act <= 3

\* C8 witness: the Scanner came back empty and the cycle made three failed
\* attempts before its sleep.
ActivateRetriedWitness ==
    /\ pc = "sleep"
    /\ cyc.poll
    /\ cyc.scans = 1
    /\ cyc.first = NoNet
    /\ cyc.act = 3
    /\ ~cyc.actOk
    /\ ~ap_active

\* C9 (hysteresis) as claimed: a cycle with the first Disconnected verdict
\* (disconnected_count 1, below the threshold), ap_active unset and the
\* time threshold not exceeded holds no call of activate_ap (stated for
\* the cycles without an uncaught error and without a call by the Scanner,
\* where it already fails).
SingleDisconnectNoActivate ==
    (cyc.poll /\ cyc.verdict = "disc" /\ ~cyc.obsAp /\ ~cyc.err
        /\ ~cyc.scanAct
        /\ disc_run = 1
        /\ cyc.streak < DISCONNECT_COUNT_THRESHOLD
        /\ cyc.since <= DISCONNECT_TIME_THRESHOLD)
    => cyc.act = 0

\* C10 (connect, then reconcile): once the snapshot is taken up, a
\* non-empty one has connect_to_wifi called once, on its first entry; a
\* cycle whose connect returned True holds no call of deactivate_ap; and
\* the cycle after it, if its verdict is Connected with ap_active set and
\* no clients, calls deactivate_ap.
ConnectFirstThenReconcile ==
    /\ cyc.connects <= 1
    /\ cyc.connects = 1 => cyc.first # NoNet /\ cyc.target = cyc.first
    /\ (cyc.first # NoNet /\ ~cyc.err /\ pc \notin {"scan_ret", "exited"})
       => cyc.connects = 1
    /\ cyc.connOk => cyc.deact = 0 /\ cyc.connects = 1
    /\ (cyc.prevConnOk /\ cyc.verdict = "conn" /\ cyc.obsAp /\ ~cyc.obsClients)
       => cyc.deact = 1

\* C10 witness: the cycle after a successful connect has the verdict
\* Connected and is in deactivate_ap.
ReconcileWitness ==
    /\ pc = "deactivate"
    /\ cyc.prevConnOk
    /\ cyc.verdict = "conn"
    /\ cyc.obsAp
    /\ cyc.deact = 1

\* C11 (forced AP mode): with FORCE_AP_MODE set, an iteration of the loop
\* is update_status, activate_ap exactly when ap_active came back unset,
\* and the forced sleep: the loop never reaches the Observer, the Client
\* Monitor, the Scanner, connect_to_wifi, deactivate_ap or
\* restart_wifi_interface, and disconnected_count and consecutive_failures
\* stay 0.  Only the except clause can add one more call of activate_ap,
\* again with ap_active unset.
ForcedModeOnlyEnsuresAP ==
    FORCE_AP_MODE =>
        /\ disconnected_count = 0
        /\ consecutive_failures = 0
        /\ disc_run = 0
        /\ cyc.poll =>
              /\ pc \in {"loop", "activate", "activate_nm", "force_sleep",
                         "except", "err_sleep", "exited"}
              /\ cyc.verdict = "none"
              /\ ~cyc.obsClients /\ ~cyc.clientsSeen /\ ~cyc.skip
              /\ cyc.scans = 0 /\ cyc.connects = 0
              /\ cyc.deact = 0 /\ cyc.recov = 0
              /\ ~cyc.actWhileActive
              /\ ~cyc.err => (cyc.act = 1 <=> ~cyc.startAp) /\ cyc.act <= 1

\* C11 witness: a forced iteration found the AP down, activated it and is
\* in its sleep.
ForcedModeWitness ==
    /\ FORCE_AP_MODE
    /\ pc = "force_sleep"
    /\ cyc.poll
    /\ ~cyc.startAp
    /\ cyc.act = 1
    /\ cyc.actOk
    /\ ap_active

\* C12 (scan rate limit): the Scanner is called at most once in a cycle,
\* only in a cycle whose verdict is Disconnected, and only when at least
\* CHECK_INTERVAL seconds lie between this cycle's time sample and that of
\* the cycle of the call before (since_scan is MaxAge when there was none).
ScanRateLimit ==
    cyc.scans >= 1 =>
        /\ cyc.scans = 1
        /\ cyc.verdict = "disc"
        /\ cyc.scanGap >= CHECK_INTERVAL

\* C12 witness: a scan is made exactly CHECK_INTERVAL seconds after the
\* one before it, two sleeps of MAIN_LOOP_INTERVAL later.
ScanRateWitness ==
    /\ pc = "scan"
    /\ cyc.scans = 1
    /\ cyc.scanGap = CHECK_INTERVAL
    /\ since_scan = 0

\* C13 (Observer decision rule) as claimed: for every combination of
\* outcomes of `ip addr show`, `nmcli device` and the probe (ping, with the
\* default route standing in when ping itself errors), is_wifi_connected
\* returns True iff hasIPv4 and (serviceConnected or reachable), a command
\* that fails or times out making only its own signal false.
ObserverDecisionRule ==
    (unit.fn = "is_wifi_connected" /\ unit.done) =>
        LET hasIPv4 == unit.ip = "inet"
            serviceConnected == unit.nm = "connected"
            reachable == \/ unit.ping = "ok"
                         \/ unit.ping = "raise" /\ unit.route = "route"
        IN unit.out <=> (hasIPv4 /\ (serviceConnected \/ reachable))

\* C15 (connect is verified): connect_to_wifi returns True exactly when
\* `nmcli connection up` exits 0 and the Observer, asked afterwards,
\* reports a connection; a non-zero exit of any cause, a timeout of the
\* command, any other exception, and an exit 0 the Observer does not
\* confirm all return False.
ConnectOnlyWhenVerified ==
    (unit.fn = "connect_to_wifi" /\ unit.done) =>
        /\ unit.out <=>
              /\ unit.cmd = "ok"
              /\ is_wifi_connected(unit.ip, unit.nm, unit.ping, unit.route)
        /\ unit.cmd \in {"auth", "not found", "timeout", "other", "expired",
                         "raise"} => ~unit.out

\* C15 witness: the command succeeded, the Observer saw no connection, and
\* connect_to_wifi returned False.
ConnectUnverifiedWitness ==
    /\ unit.fn = "connect_to_wifi"
    /\ unit.done
    /\ unit.cmd = "ok"
    /\ unit.ip = "inet"
    /\ unit.nm = "other"
    /\ unit.ping = "fail"
    /\ ~unit.out

\* C14 as claimed, second half: after construction self.ap_active goes
\* from unset to set only in a call of activate_ap that returns True.
ActiveOnlyByActivate ==
    [][(pc # "boot" /\ ~ap_active /\ ap_active')
          => (pc = "activate" /\ pc' = "activate_nm")]_vars

\* C14 as amended: a call of activate_ap that does not return True (every
\* step failed or raised) leaves self.ap_active as it was, unset; a call
\* that sets it goes on to return True; and self.ap_active goes from unset
\* to set only there or in update_status (at construction and at the head
\* of every iteration), which copies what NetworkManager reports.
FlagSetByActivateOrRefresh ==
    [][/\ (pc = "activate" /\ pc' \notin {"activate_nm", "exited"})
              => ap_active' = ap_active
       /\ (pc = "activate" /\ pc' = "activate_nm")
              => ~ap_active /\ ap_active' /\ cyc'.actOk
       /\ (~ap_active /\ ap_active')
              => \/ pc = "activate" /\ pc' = "activate_nm"
                 \/ pc = "loop" /\ pc' # "exited"
                 \/ pc = "boot" /\ pc' = "start"]_vars

\* C14 witness: the threshold branch called activate_ap, the chain failed
\* and the call returned False with the AP still inactive.
ActivationFailedWitness ==
    /\ pc = "clients"
    /\ cyc.trigAct
    /\ cyc.act = 1
    /\ cyc.actFail
    /\ ~cyc.actOk
    /\ ~ap_active

\* C16 (termination signal): wherever the signal finds the program, the
\* handler clears self.running, calls deactivate_ap exactly when
\* self.ap_active is set at that moment, and the process exits with
\* status 0.
SignalDeactivatesAndExits ==
    /\ cyc.sig =>
          /\ pc = "exited"
          /\ exit_code = 0
          /\ ~running
          /\ cyc.sigAp <=> cyc.sigDeact
    /\ exit_code = 0 => cyc.sig

\* C16 witness: the signal arrived inside activate_ap, after
\* self.ap_active was set and before the call returned, and the handler
\* called deactivate_ap.
SignalInActivateWitness ==
    /\ pc = "exited"
    /\ cyc.sig
    /\ cyc.sigAt = "activate_nm"
    /\ cyc.sigAp
    /\ cyc.sigDeact
    /\ exit_code = 0

\* C17 (the engine never gives up): the loop test passes whenever it is
\* reached, so a next cycle can begin; unless the process has exited, the
\* loop test is reached again and again and left again and again (cycles
\* keep ending and keep beginning), whatever the verdicts, snapshots and
\* command failures; and once the dependency check has passed the process
\* ends only in handle_signal.
NeverGivesUp ==
    /\ [](pc = "loop" => running /\ ENABLED BeginCycle)
    /\ [](pc = "exited" =>
             \/ cyc.sig
             \/ exit_code = 1 /\ ~cyc.poll /\ cyc.act = 0)
    /\ []<>(pc \in {"loop", "exited"})
    /\ []<>(pc # "loop")

\* C17 witness: the third Disconnected cycle in a row in which every
\* activate_ap and the connect_to_wifi failed is back at the loop test.
NeverGivesUpWitness ==
    /\ pc = "loop"
    /\ running
    /\ cyc.poll
    /\ disc_run >= 3
    /\ cyc.act >= 2
    /\ cyc.actFail
    /\ ~cyc.actOk
    /\ cyc.connects = 1
    /\ ~cyc.connOk
    /\ ~ap_active

\* C18 (never permanently unreachable): every Disconnected cycle that
\* finds self.ap_active unset past the count or the time threshold calls
\* activate_ap; and self.ap_active is set again and again unless, again
\* and again, the Observer returns Connected or a call of activate_ap
\* returns False, or a signal has ended the process: no run stays without
\* the AP from some cycle on with only Disconnected verdicts and no failed
\* activation.
EventuallyActive ==
    /\ []((cyc.poll /\ cyc.verdict = "disc" /\ ~cyc.obsAp
             /\ (\/ cyc.streak >= DISCONNECT_COUNT_THRESHOLD
                 \/ cyc.since > DISCONNECT_TIME_THRESHOLD))
          => cyc.trigAct)
    /\ []<>(\/ ap_active
            \/ pc = "exited"
            \/ cyc.verdict = "conn"
            \/ cyc.actFail)

\* C18 witness: after Disconnected verdicts only, with a connect_to_wifi
\* that reset the count in between, the time threshold made the loop call
\* activate_ap, which succeeded.
EventuallyActiveWitness ==
    /\ pc = "activate_nm"
    /\ cyc.verdict = "disc"
    /\ cyc.trigAct
    /\ cyc.streak = 1
    /\ cyc.since > DISCONNECT_TIME_THRESHOLD
    /\ disc_run >= 3
    /\ cyc.act = 1
    /\ ap_active

\* C19 as claimed: with nmcli unusable or the NetworkManager service not
\* running, the process gets no further than the dependency check.
MissingDependencyStops ==
    (deps.nmcli # "ok" \/ ~deps.running) => pc \in {"boot", "exited"}

\* C19 as amended: when `nmcli --version` cannot be run or exits non-zero,
\* or `systemctl is-active NetworkManager` prints something other than
\* "active", the process leaves check_dependencies with status 1 (unless a
\* signal ends it first), before the loop and before any call of
\* activate_ap, scan_for_known_networks or connect_to_wifi; status 1 has no
\* other cause; a systemctl that cannot be run stops nothing.
FailedDependencyCheckStops ==
    /\ (deps.nmcli # "ok" \/ deps.systemctl = "inactive") =>
          /\ pc \in {"boot", "exited"}
          /\ pc = "exited" => exit_code = 1 \/ cyc.sig
          /\ ~cyc.poll
          /\ cyc.act = 0 /\ cyc.scans = 0 /\ cyc.connects = 0
          /\ ~ap_active
    /\ exit_code = 1 =>
          /\ pc = "exited"
          /\ deps.nmcli # "ok" \/ deps.systemctl = "inactive"
    /\ (deps.nmcli = "ok" /\ deps.systemctl = "raise") => pc # "exited" \/ cyc.sig

\* C19 witness: nmcli is there, systemctl reports the service inactive and
\* the process has left with status 1.
DependencyExitWitness ==
    /\ pc = "exited"
    /\ exit_code = 1
    /\ deps.nmcli = "ok"
    /\ deps.systemctl = "inactive"
    /\ ~deps.running
    /\ ~cyc.sig

DeactivateKeepsProfile ==
    (unit.fn = "deactivate_ap" /\ unit.done) =>
        LET r == unit.r
            o == unit.out
            match == r.list = "ok" /\ unit.p > 0
        IN /\ profiles = unit.p
           /\ o.profiles = unit.p
           /\ ap_active = o.active
           /\ ~unit.active => o.ok /\ ~ap_active
           /\ unit.active =>
                 /\ (r.list # "raise" /\ ~match) => o.ok /\ ~ap_active
                 /\ (match /\ r.down # "ok") => ~o.ok /\ ap_active
                 /\ (match /\ r.down = "ok") => o.ok /\ ~ap_active
           /\ (unit.p > 0 /\ ~ap_active) =>
                 \A x \in ActInputs :
                     (x.radio # "raise" /\ x.list = "ok" /\ x.up = "ok")
                     => /\ activate_ap(profiles, x).step = "reuse"
                        /\ activate_ap(profiles, x).profiles = unit.p

\* C21 witness: the profile was found, `nmcli connection down` exited
\* non-zero, and deactivate_ap returned False with the flag still set.
DeactivateFailedWitness ==
    /\ unit.fn = "deactivate_ap"
    /\ unit.done
    /\ unit.active
    /\ unit.p = 1
    /\ unit.r.list = "ok"
    /\ unit.r.down = "fail"
    /\ ~unit.out.ok
    /\ ap_active
    /\ profiles = 1

\* the names of the saved WiFi profiles other than the hotspot's own
RECURSIVE KnownNames(_)
KnownNames(rows) ==
    IF rows = <<>> THEN <<>>
    ELSE LET c == Head(rows) IN
         IF c.type = WIFI /\ c.name \notin HotspotNames
             THEN <<c.name>> \o KnownNames(Tail(rows))
             ELSE KnownNames(Tail(rows))

\* q without the later occurrences of its entries
RECURSIVE Distinct(_)
Distinct(q) ==
    IF q = <<>> THEN <<>>
    ELSE LET front == Distinct(SubSeq(q, 1, Len(q) - 1))
             x == q[Len(q)]
         IN IF \E i \in 1..Len(front) : front[i] = x
                THEN front ELSE Append(front, x)

\* C22 (Scanner) as claimed: scan_for_known_networks returns the saved
\* names visible in the attempt that produced the result, in saved-list
\* order and without duplicates; with no saved network it returns the
\* empty list without cycling the radio or listing; it lists at most 3
\* times and returns at the first attempt with a non-empty intersection,
\* an attempt that fails counting as one that saw nothing.
ScannerSnapshot ==
    (unit.fn = "scan_for_known_networks" /\ unit.done) =>
        LET known == KnownNames(unit.saved.rows)
            o == unit.out
            n == o.attempts
            seen(i) == IF unit.att[i].res = "ok" THEN unit.att[i].ssids ELSE {}
            inter(i) == Distinct(Known(known, seen(i)))
        IN /\ n <= 3
           /\ known = <<>> => o.nets = <<>> /\ ~o.cycled /\ n = 0
           /\ o.nets # <<>> => n >= 1 /\ o.nets = inter(n)
           /\ \A i \in 1..3 : i < n => inter(i) = <<>>
           /\ (n = 3 /\ o.nets = <<>>) => inter(3) = <<>>
           /\ (known # <<>> /\ n < 3 /\ o.nets = <<>>) =>
                 \/ unit.radio = "raise"
                 \/ n >= 1 /\ unit.att[n].res = "raise"

\* C23 (a scan without a connection ensures the AP): when a cycle in which
\* the Scanner was called and no connect_to_wifi returned True has come to
\* its end (its sleep, the error back-off, or the loop test after them),
\* self.ap_active is set or activate_ap was called in that cycle; and the
\* sleep is not reached from the scan with self.ap_active unset unless
\* activate_ap was called and returned False.
ScanFailureEnsuresAP ==
    (cyc.poll /\ cyc.scans >= 1 /\ ~cyc.connOk
        /\ pc \in {"sleep", "err_sleep", "loop"})
    => /\ ap_active \/ cyc.act >= 1
       /\ ~ap_active => cyc.actFail

\* C23 witness: the snapshot was not empty, connect_to_wifi returned False
\* with the AP inactive, and the one call of activate_ap of the cycle,
\* made by line 918, brought the AP up.
ScanFailureWitness ==
    /\ pc = "sleep"
    /\ cyc.scans = 1
    /\ cyc.connects = 1
    /\ ~cyc.connOk
    /\ ~cyc.trigAct
    /\ ~cyc.scanAct
    /\ cyc.act = 1
    /\ cyc.actOk
    /\ ap_active

\* C24 (one connect per scan, on the first entry): connect_to_wifi is
\* called only on the return of a scan, at most once per scan and cycle,
\* and on the first entry of the snapshot; when it has returned the cycle
\* goes on to its sleep (by way of activate_ap if need be), so neither the
\* same nor a later entry is tried before the next scan; and every scan
\* that returns a non-empty snapshot has connect_to_wifi called on its
\* first entry, the network it failed on the last time included.
ConnectOncePerScanState ==
    /\ cyc.connects <= cyc.scans
    /\ cyc.scans <= 1
    /\ pc = "connect" =>
          /\ available_networks # <<>>
          /\ ssid = available_networks[1]
          /\ ssid = cyc.first
          /\ cyc.connects = 1

ConnectOncePerScanStep ==
    /\ pc' = "connect" => pc = "scan_ret"
    /\ (pc = "scan_ret" /\ available_networks # <<>> /\ pc' # "exited")
          => pc' = "connect" /\ ssid' = available_networks[1]
    /\ pc = "connect" =>
          \/ pc' = "sleep"
          \/ pc' = "activate" /\ stack' = <<"sleep">>
          \/ pc' = "exited"

ConnectOncePerScan ==
    []ConnectOncePerScanState /\ [][ConnectOncePerScanStep]_vars

\* C24 witness: the snapshot has two entries, connect_to_wifi returned
\* False on the first in the cycle before this one, and it is being called
\* on that same network again.
ConnectAgainWitness ==
    /\ pc = "connect"
    /\ Len(available_networks) = 2
    /\ available_networks[1] # available_networks[2]
    /\ cyc.prevFailed = available_networks[1]
    /\ ssid = cyc.prevFailed

\* the step that takes the verdict v of a cycle
VerdictStep(v) == pc = "observe" /\ cyc'.verdict = v

\* C25 (counter discipline) as claimed: while the process runs,
\* disconnected_count is lowered only by a Connected verdict, and
\* consecutive_failures only by a Connected verdict or by a
\* restart_wifi_interface that succeeded.
CountersResetOnlyAsClaimed ==
    [][pc' # "exited" =>
          /\ disconnected_count' < disconnected_count => VerdictStep("conn")
          /\ consecutive_failures' < consecutive_failures =>
                \/ VerdictStep("conn")
                \/ VerdictStep("disc") /\ cyc'.recovOk]_vars

\* C25 as amended: a Disconnected verdict adds exactly 1 to both counters
\* (disconnected_count is kept exactly up to MaxRun), after which
\* consecutive_failures is set to 0 when it has reached
\* INTERFACE_RESTART_THRESHOLD and restart_wifi_interface has been called,
\* whatever that call returned; a Connected verdict sets both to 0; a
\* connect_to_wifi that returns True, in a cycle whose verdict is
\* Disconnected, sets disconnected_count to 0 and leaves
\* consecutive_failures; and no other step of the loop changes either.
CounterDiscipline ==
    [][pc' # "exited" =>
          /\ VerdictStep("disc") =>
                /\ cyc'.streak = Min(MaxRun, disconnected_count + 1)
                /\ disconnected_count' = cyc'.streak
                /\ cyc'.recov = 1 <=>
                      consecutive_failures + 1 >= INTERFACE_RESTART_THRESHOLD
                /\ consecutive_failures' =
                      IF cyc'.recov = 1 THEN 0 ELSE consecutive_failures + 1
          /\ VerdictStep("conn") =>
                disconnected_count' = 0 /\ consecutive_failures' = 0
          /\ (pc = "connect" /\ cyc'.connOk) =>
                /\ cyc.verdict = "disc"
                /\ disconnected_count' = 0
                /\ consecutive_failures' = consecutive_failures
          /\ disconnected_count' # disconnected_count =>
                \/ VerdictStep("disc")
                \/ VerdictStep("conn")
                \/ pc = "connect" /\ cyc'.connOk
          /\ consecutive_failures' # consecutive_failures =>
                VerdictStep("disc") \/ VerdictStep("conn")]_vars

\* C25 witness: in the 12th Disconnected cycle in a row
\* restart_wifi_interface returned False and consecutive_failures is 0,
\* and the connect_to_wifi of that cycle has returned True and set
\* disconnected_count to 0.
CountersResetWitness ==
    /\ pc = "sleep"
    /\ cyc.verdict = "disc"
    /\ cyc.streak = INTERFACE_RESTART_THRESHOLD
    /\ cyc.recov = 1
    /\ ~cyc.recovOk
    /\ consecutive_failures = 0
    /\ cyc.connOk
    /\ disconnected_count = 0

\* C26 (who writes APStatus) as claimed: in the loop self.ap_active
\* changes value only in a call of activate_ap or deactivate_ap made by
\* run() itself.
APStatusOnlyByController ==
    [][(ap_active' # ap_active /\ pc # "boot" /\ pc' # "exited")
          => \/ pc = "activate" /\ Head(stack) # "scan_ret"
             \/ pc = "deactivate"]_vars

\* C26 as amended: self.ap_active changes value only in update_status (at
\* construction and at the head of every iteration), where it becomes
\* what is_ap_active reports, in activate_ap (unset to set), whoever
\* called it, and in deactivate_ap (set to unset); the Observer, the
\* Client Monitor, connect_to_wifi, the Scanner outside its call of
\* activate_ap, and the sleeps leave it as it is.
APStatusWriters ==
    [][pc' # "exited" =>
          /\ ap_active' # ap_active =>
                pc \in {"boot", "loop", "activate", "deactivate"}
          /\ pc = "loop" => ap_active' = cyc'.startAp
          /\ (pc = "activate" /\ ap_active' # ap_active) => ap_active'
          /\ (pc = "deactivate" /\ ap_active' # ap_active) => ~ap_active'
          /\ pc \in {"observe", "clients", "scan", "scan_ret", "connect",
                     "sleep", "client_sleep", "force_sleep", "except",
                     "err_sleep", "activate_nm", "start"}
                => ap_active' = ap_active]_vars

\* C26 witness: update_status has just cleared a flag that was set, with
\* no call of deactivate_ap, and the cycle is about to take its verdict.
RefreshClearedWitness ==
    /\ pc = "observe"
    /\ cyc.refreshed
    /\ ~cyc.startAp
    /\ ~ap_active
    /\ cyc.deact = 0
    /\ cyc.act = 0

\* C27 (who calls the AP Controller) as claimed: whatever the outcome of
\* the scan, scan_for_known_networks does not call activate_ap.
ScannerNeverActivates ==
    (unit.fn = "scan_for_known_networks" /\ unit.done) => ~unit.out.activate

\* C27 as amended: scan_for_known_networks calls activate_ap itself
\* exactly when it is about to return the empty list with self.ap_active
\* unset, in each of its three outcomes (no saved network, no known
\* network seen in three attempts, an exception); it writes
\* self.ap_active in no other way and has no call of deactivate_ap.
ScannerActivatesWhenEmpty ==
    (unit.fn = "scan_for_known_networks" /\ unit.done) =>
        LET o == unit.out
            saved == get_saved_wifi_networks(unit.saved)
            raised == \/ unit.radio = "raise"
                      \/ \E i \in 1..3 : /\ i <= o.attempts
                                          /\ unit.att[i].res = "raise"
        IN /\ ap_active = unit.active
           /\ o.activate <=> (o.nets = <<>> /\ ~unit.active)
           /\ saved = <<>> => o.nets = <<>>
           /\ (saved # <<>> /\ raised) => o.nets = <<>>
           /\ (saved # <<>> /\ ~raised /\ o.nets = <<>>) => o.attempts = 3

\* C27 witness: a network is saved, three listings showed none that is
\* known, the AP is inactive and the Scanner calls activate_ap.
ScannerActivatesWitness ==
    /\ unit.fn = "scan_for_known_networks"
    /\ unit.done
    /\ ~unit.active
    /\ get_saved_wifi_networks(unit.saved) # <<>>
    /\ unit.radio = "ok"
    /\ \A i \in 1..3 : unit.att[i].res = "ok"
    /\ unit.out.attempts = 3
    /\ unit.out.nets = <<>>
    /\ unit.out.activate

Sleeps == {"sleep", "force_sleep", "client_sleep", "err_sleep"}

\* C28 (cooperative sleeps) as claimed: every sleep between two cycles is
\* made of calls of time.sleep of at most one second each.
AllSleepsCooperative ==
    cyc.blind <= 1

\* C28 as amended: only the sleep that ends a normal cycle goes in steps
\* of one second with a look at self.running before each; the forced-AP,
\* clients-present and error sleeps are one time.sleep of 30, 15 and 5
\* seconds.  The loop is nevertheless left at once: self.running is
\* cleared only by handle_signal, which can run during any sleep and ends
\* the process itself.
OnlyNormalSleepCooperative ==
    /\ (pc = "loop" /\ cyc.poll) =>
          cyc.blind = IF cyc.err THEN ERROR_SLEEP_INTERVAL
                      ELSE IF FORCE_AP_MODE THEN FORCE_AP_SLEEP_INTERVAL
                      ELSE IF cyc.skip THEN MAIN_LOOP_INTERVAL
                      ELSE 1
    /\ ~running => pc = "exited"
    /\ pc \in Sleeps => running /\ ENABLED handle_signal

\* C28 witness: a clients-present cycle has ended with a single sleep of
\* MAIN_LOOP_INTERVAL seconds.
UninterruptedSleepWitness ==
    /\ pc = "loop"
    /\ cyc.poll
    /\ cyc.skip
    /\ ~cyc.err
    /\ cyc.blind = MAIN_LOOP_INTERVAL

\* C29 (no overlap of AP Controller calls) as claimed: no call of
\* deactivate_ap starts while the body of activate_ap or of another
\* deactivate_ap is in progress, a termination signal delivered during
\* such a body included.
ControllerCallsNeverOverlap ==
    /\ pc \in {"activate", "activate_nm", "deactivate"} =>
          /\ stack # <<>>
          /\ \A i \in 1..Len(stack) :
                 stack[i] \notin {"activate", "activate_nm", "deactivate"}
    /\ cyc.sigDeact => cyc.sigAt \notin {"activate_nm", "deactivate"}

\* C30 (every command is bounded) as claimed: even when a command of a
\* poll cycle never returns on its own, the cycle comes to its sleep: the
\* loop is in one of its sleeps again and again for as long as the
\* process runs.
CyclesReachSleep ==
    []<>(pc \in Sleeps \/ pc = "exited")

(***************************************************************************)
(* Attached clients and the radio.                                         *)
(***************************************************************************)
\* C31 (attached clients are not disturbed): a cycle that the clients-present
\* branch ends (ap_active set and the Client Monitor reporting clients at
\* line 895) holds no call of scan_for_known_networks and no call of
\* restart_wifi_interface.
ClientsNeverDisturbed ==
    cyc.skip => cyc.scans = 0 /\ cyc.recov = 0

(***************************************************************************)
(* Which cycles call which helpers.                                        *)
(***************************************************************************)
\* C32 (the loop deactivates only when connected): run() is inside its call
\* of deactivate_ap only in a cycle whose verdict is Connected, taken with
\* ap_active set and the Client Monitor reporting no clients, and before any
\* uncaught error; a cycle with a Disconnected verdict, a scan or a call of
\* connect_to_wifi holds no call of deactivate_ap.
DeactivateOnlyWhenConnected ==
    /\ pc = "deactivate" =>
          /\ cyc.verdict = "conn"
          /\ cyc.obsAp /\ ap_active
          /\ ~cyc.obsClients
          /\ ~cyc.err
          /\ stack = <<"clients">>
    /\ cyc.deact > 0 =>
          cyc.verdict = "conn" /\ cyc.obsAp /\ ~cyc.obsClients
    /\ (cyc.verdict = "disc" \/ cyc.scans > 0 \/ cyc.connects > 0)
          => cyc.deact = 0

\* C32 witness: the cycle after a successful connect_to_wifi finds the link
\* up and the AP active without clients, and is inside deactivate_ap.
DeactivateAfterConnectWitness ==
    /\ pc = "deactivate"
    /\ cyc.prevConnOk
    /\ cyc.verdict = "conn"
    /\ cyc.deact = 1

\* C33 as stated (a Connected cycle only ever deactivates): a cycle whose
\* verdict is Connected holds no call of scan_for_known_networks,
\* connect_to_wifi, activate_ap or restart_wifi_interface.
ConnectedCycleOnlyDeactivates ==
    cyc.verdict = "conn" =>
        cyc.scans = 0 /\ cyc.connects = 0 /\ cyc.act = 0 /\ cyc.recov = 0

\* C33 (a Connected cycle deactivates, or fails open): a cycle whose verdict
\* is Connected holds no call of scan_for_known_networks, connect_to_wifi or
\* restart_wifi_interface, and its only call of activate_ap is the one the
\* except clause makes, with ap_active unset, after an uncaught error.
ConnectedCycleFrame ==
    cyc.verdict = "conn" =>
        /\ cyc.scans = 0 /\ cyc.connects = 0 /\ cyc.recov = 0
        /\ ~cyc.trigAct /\ ~cyc.scanAct
        /\ cyc.act <= 1
        /\ cyc.act = 1 <=> cyc.errAct
        /\ cyc.errAct => cyc.err /\ ~cyc.errAp

\* C33 witness: a Connected cycle took the AP down, met an uncaught error
\* and is inside the activate_ap of the except clause.
ConnectedCycleFailsOpenWitness ==
    /\ pc = "activate"
    /\ cyc.verdict = "conn"
    /\ cyc.deact = 1
    /\ cyc.errAct
    /\ cyc.act = 1

(***************************************************************************)
(* The start of run().                                                     *)
(***************************************************************************)
\* C34 (start-up): between the check of line 824 and the first cycle,
\* activate_ap has been called exactly when the Observer answered not
\* connected, with both counters 0 and no time passed since
\* last_connected_time (no threshold is waited for); the call returns to the
\* loop, and whether it succeeded or failed the first cycle can begin.
StartupActivatesAtOnce ==
    (~cyc.poll /\ pc \in {"activate", "activate_nm", "loop"}) =>
        /\ cyc.boot \in {"conn", "disc"}
        /\ cyc.act = (IF cyc.boot = "disc" THEN 1 ELSE 0)
        /\ disconnected_count = 0
        /\ consecutive_failures = 0
        /\ time_since_connected = 0
        /\ running
        /\ pc # "loop" => stack = <<"loop">>
        /\ pc = "loop" => stack = <<>> /\ ENABLED BeginCycle

\* C34 witness: not connected at start, the activation failed, and the loop
\* is about to begin its first cycle with the AP inactive.
StartupActivationFailedWitness ==
    /\ pc = "loop"
    /\ ~cyc.poll
    /\ cyc.boot = "disc"
    /\ cyc.act = 1
    /\ cyc.actFail
    /\ ~ap_active

(***************************************************************************)
(* The --prioritize-clients flag.                                          *)
(***************************************************************************)
\* What the step from position p does next, as a function of the position,
\* FORCE_AP_MODE, self.ap_active, the locals of run() and what the step's
\* commands reported (the primed history of the cycle).
\* PRIORITIZE_CLIENTS does not occur in it.
EngineStep ==
    \/ pc' \in {"exited", "except"}
    \/ pc = "boot" /\ pc' = "start"
    \/ pc = "start" /\ pc' = (IF cyc'.boot = "disc" THEN "activate" ELSE "loop")
    \/ pc = "loop" /\ pc' = (IF ~FORCE_AP_MODE THEN "observe"
                             ELSE IF ap_active' THEN "force_sleep"
                             ELSE "activate")
    \/ /\ pc = "observe"
       /\ cyc'.verdict = "conn"
       /\ pc' = (IF ap_active /\ ~cyc'.obsClients THEN "deactivate"
                 ELSE "clients")
       /\ cyc'.recov = 0
    \/ /\ pc = "observe"
       /\ cyc'.verdict = "disc"
       /\ pc' = (IF /\ \/ cyc'.streak >= DISCONNECT_COUNT_THRESHOLD
                       \/ time_since_connected > DISCONNECT_TIME_THRESHOLD
                    /\ ~ap_active
                     THEN "activate" ELSE "clients")
       /\ cyc'.recov =
             (IF consecutive_failures + 1 >= INTERFACE_RESTART_THRESHOLD
                  THEN 1 ELSE 0)
    \/ pc = "clients" /\ pc' = (IF ap_active /\ cyc'.clientsSeen
                                    THEN "client_sleep"
                                ELSE IF /\ ~is_connected
                                        /\ time_since_check >= CHECK_INTERVAL
                                    THEN "scan"
                                ELSE "sleep")
    \/ pc = "scan" /\ pc' = (IF available_networks' = <<>> /\ ~ap_active
                                 THEN "activate" ELSE "scan_ret")
    \/ /\ pc = "scan_ret"
       /\ pc' = (IF available_networks # <<>> THEN "connect"
                 ELSE IF ~ap_active THEN "activate"
                 ELSE "sleep")
       /\ pc' = "connect" => ssid' = available_networks[1]
    \/ pc = "connect" /\ pc' = (IF cyc'.connOk \/ ap_active THEN "sleep"
                                ELSE "activate")
    \/ pc = "except" /\ pc' = (IF ap_active THEN "err_sleep" ELSE "activate")
    \/ pc = "activate" /\ pc' \in {"activate_nm", Head(stack)}
    \/ pc \in {"activate_nm", "deactivate"} /\ pc' = Head(stack)
    \/ pc \in {"sleep", "client_sleep", "force_sleep", "err_sleep"}
          /\ pc' = "loop"

CountersAtCycleBoundary ==
    pc = "loop" =>
        /\ consecutive_failures \in 0..(INTERFACE_RESTART_THRESHOLD - 1)
        /\ disconnected_count >= 0

\* C36 witness (either counter may be the larger): the 12th Disconnected
\* cycle in a row restarted the interface and made no successful connect,
\* so that it ended with consecutive_failures = 0 below disconnected_count;
\* the 13th made one, and ends with disconnected_count = 0 below
\* consecutive_failures = 1.
CountersCrossWitness ==
    /\ pc = "loop"
    /\ cyc.poll
    /\ disc_run = INTERFACE_RESTART_THRESHOLD + 1
    /\ ~cyc.prevConnOk
    /\ cyc.connOk
    /\ disconnected_count = 0
    /\ consecutive_failures = 1

=============================================================================
